---- MODULE Spec2Model ----
(***************************************************************************)
(* Working Hours Tracker (src/app.py): a Streamlit script over one SQLite  *)
(* table.  Every user event (a button click, a file upload) runs the whole *)
(* script top to bottom; st.rerun() ends the run and asks for another one. *)
(*                                                                         *)
(* Representation of values                                                *)
(*   time of day      a record [hour, minute]                              *)
(*   "HH:MM" text     the tuple <<hour, minute>>; a tuple that is not two  *)
(*                    in-range numbers is text time.fromisoformat rejects  *)
(*   date text        all dates lie in one month, so a date text is the    *)
(*                    digit string of its day field: <<0,5>> is            *)
(*                    "2024-01-05", <<5>> is "2024-01-5"                   *)
(*   CSV Break cell   <<n>> is a cell int() converts to n, <<>> a cell on  *)
(*                    which int() raises                                   *)
(*   hours            hundredths of an hour (the value is rounded to two   *)
(*                    decimals), so 750 is 7.5 hours                       *)
(*   None             the empty tuple <<>>; a present value x is <<x>>     *)
(***************************************************************************)
EXTENDS Integers, Sequences, FiniteSets, TLC

VARIABLES
    entries,      \* table "entries", rows in rowid order
    seq,          \* sqlite_sequence row of the AUTOINCREMENT table
    clocked_in,   \* st.session_state.clocked_in
    edit_mode,    \* st.session_state.edit_mode
    edit_id,      \* st.session_state.edit_id
    uploaded,     \* the file held by the "bulk" file_uploader widget
    rerun,        \* st.rerun() was called and the next run has not started
    msg,          \* the status message the last run's handler emitted
    calc_args,    \* arguments of a direct call of calculate_hours
    calc_result   \* its result

vars == <<entries, seq, clocked_in, edit_mode, edit_id, uploaded, rerun, msg,
          calc_args, calc_result>>

None == <<>>

Some(x) == <<x>>

(* ---------------------------------------------------------------------- *)
(* Bounds                                                                  *)
(* ---------------------------------------------------------------------- *)

\* Entries ever created (caps the AUTOINCREMENT counter).
MaxId == 2

\* Rows of an uploaded CSV file.
MaxRows == 2

(* ---------------------------------------------------------------------- *)
(* Helper functions (section 3 of app.py)                                  *)
(* ---------------------------------------------------------------------- *)

Time(h, m) == [hour |-> h, minute |-> m]

\* round(num / den, 2) in hundredths.  No argument used below lies exactly
\* between two hundredths, so the tie rule of round() plays no part.
round2(num, den) == (200 * num + den) \div (2 * den)

calculate_hours_signless(start, end, break_min) ==
    LET s == start.hour * 60 + start.minute
        e == end.hour * 60 + end.minute
        total == e - s - break_min
    IN  IF total > 0 THEN round2(total, 60) ELSE round2(-total, 60)

calculate_hours_truncating(start, end, break_min) ==
    LET s == start.hour * 60 + start.minute
        e == end.hour * 60 + end.minute
        total == e - s - break_min
    IN  IF total > 0 THEN (100 * total) \div 60 ELSE 0

calculate_hours(start, end, break_min) ==
    LET s == start.hour * 60 + start.minute
        e == end.hour * 60 + end.minute
        total == e - s - break_min
    IN  IF total > 0 THEN round2(total, 60) ELSE 0

\* time.strftime("%H:%M")
strftime_HM(t) == <<t.hour, t.minute>>

\* time.fromisoformat(text) succeeds
IsIsoTime(text) ==
    /\ Len(text) = 2
    /\ text[1] \in 0..23
    /\ text[2] \in 0..59

\* time.fromisoformat(text), for text it accepts
fromisoformat(text) == Time(text[1], text[2])

\* date.strftime("%Y-%m-%d"): the day field is zero-padded to two digits
strftime_Ymd(day) == <<day \div 10, day % 10>>

\* datetime.strptime(text, "%Y-%m-%d"): accepts a one- or two-digit day
strptime_Ymd(text) ==
    IF Len(text) = 1 THEN text[1] ELSE 10 * text[1] + text[2]

(* ---------------------------------------------------------------------- *)
(* Database layer (section 2 of app.py).  A database value is the record   *)
(* [rows, seq]: the table's rows in rowid order and the sqlite_sequence    *)
(* counter that AUTOINCREMENT keeps for the table.                         *)
(* ---------------------------------------------------------------------- *)

Ids(rows) == {rows[i].id : i \in DOMAIN rows}

MaxOf(S) == IF S = {} THEN 0 ELSE CHOOSE x \in S : \A y \in S : y <= x

\* INTEGER PRIMARY KEY without AUTOINCREMENT: one more than the largest
\* rowid now in the table.
NextRowid_reusing(db) == MaxOf(Ids(db.rows)) + 1

\* id INTEGER PRIMARY KEY AUTOINCREMENT: one more than the largest rowid the
\* table has ever held, which sqlite_sequence remembers across deletes.
NextRowid(db) == MaxOf(Ids(db.rows) \cup {db.seq}) + 1

add_entry(db, entry) ==
    LET rowid == NextRowid(db)
    IN  [rows |-> Append(db.rows,
                    [id            |-> rowid,
                     date          |-> entry.date,
                     start_time    |-> entry.start_time,
                     end_time      |-> entry.end_time,
                     break_minutes |-> entry.break_minutes,
                     hours         |-> entry.hours]),
         seq  |-> rowid]

update_entry(db, entry_id, entry) ==
    [rows |-> [i \in DOMAIN db.rows |->
                 IF db.rows[i].id = entry_id
                 THEN [id            |-> db.rows[i].id,
                       date          |-> entry.date,
                       start_time    |-> entry.start_time,
                       end_time      |-> entry.end_time,
                       break_minutes |-> entry.break_minutes,
                       hours         |-> entry.hours]
                 ELSE db.rows[i]],
     seq  |-> db.seq]

delete_entry(db, entry_id) ==
    [rows |-> SelectSeq(db.rows, LAMBDA r : r.id # entry_id),
     seq  |-> db.seq]

\* DELETE FROM entries: the rows go, sqlite_sequence stays.
delete_all(db) == [rows |-> <<>>, seq |-> db.seq]

\* SQLite's BINARY collation on TEXT: bytewise, a proper prefix sorts first.
TextLess(a, b) ==
    \/ \E k \in 1..Len(a) :
          /\ k <= Len(b)
          /\ \A j \in 1..(k - 1) : a[j] = b[j]
          /\ a[k] < b[k]
    \/ /\ Len(a) < Len(b)
       /\ \A j \in 1..Len(a) : a[j] = b[j]

\* ORDER BY date DESC, id DESC: row a is listed before row b
ListedBefore(a, b) ==
    \/ TextLess(b.date, a.date)
    \/ a.date = b.date /\ a.id > b.id

RECURSIVE OrderBy(_)
OrderBy(S) ==
    IF S = {} THEN <<>>
    ELSE LET first == CHOOSE a \in S : \A b \in S \ {a} : ListedBefore(a, b)
         IN  <<first>> \o OrderBy(S \ {first})

\* SELECT * FROM entries ORDER BY date DESC, id DESC
load_entries(db) == OrderBy({db.rows[i] : i \in DOMAIN db.rows})

\* The database file as the running script finds it.
database == [rows |-> entries, seq |-> seq]

\* df_entries = load_entries(), at the top of every run
df_entries == load_entries(database)

(* ---------------------------------------------------------------------- *)
(* Inputs                                                                  *)
(* ---------------------------------------------------------------------- *)

\* date.today(), as a day of the month
Today == 5

\* What the user has set the four form widgets to when Add or Update is
\* pressed (date_input as a day; the two time_input; number_input, which
\* has min_value=0): two sessions of positive length, then equal times, an
\* end before the start, and a break that uses up the whole span.
FormInputs ==
    {[entry_date |-> 5,  start_time |-> Time(9, 0),  end_time |-> Time(10, 0), break_min |-> 30],
     [entry_date |-> 10, start_time |-> Time(9, 0),  end_time |-> Time(10, 0), break_min |-> 0],
     [entry_date |-> 10, start_time |-> Time(9, 30), end_time |-> Time(9, 30), break_min |-> 0],
     [entry_date |-> 10, start_time |-> Time(10, 0), end_time |-> Time(9, 0),  break_min |-> 0],
     [entry_date |-> 10, start_time |-> Time(9, 0),  end_time |-> Time(9, 30), break_min |-> 30]}

\* Instants datetime.now() returns, as [hour, minute, second] on Today.
ClockInstants == {[hour |-> 9, minute |-> 0, second |-> 0],
                  [hour |-> 9, minute |-> 0, second |-> 59]}

\* Lines of an uploaded CSV file: a well-formed row; a row with an unpadded
\* day and a negative break; a row whose break uses up the whole span; a
\* row whose Start is no time and whose Break is no number.
CsvLines == {"2024-01-10,09:00,09:30,0",
             "2024-01-5,09:00,09:30,-30",
             "2024-01-10,09:00,09:30,30",
             "2024-01-10,25:00,09:30,x"}

LineSeqs == UNION {[1..n -> CsvLines] : n \in 0..MaxRows}

RequiredHeader == "Date,Start,End,Break"

\* Uploaded files: with the four required columns and some lines, or lacking
\* a required column.
CsvFiles ==
    {[header |-> RequiredHeader, lines |-> ls] : ls \in LineSeqs}
        \cup {[header |-> "Date,Start,End", lines |-> <<>>]}

\* A row of pd.read_csv(uploaded), cell by cell.
read_csv_row(line) ==
    CASE line = "2024-01-10,09:00,09:30,0" ->
           [Date |-> <<1, 0>>, Start |-> <<9, 0>>, End |-> <<9, 30>>, Break |-> <<0>>]
      [] line = "2024-01-5,09:00,09:30,-30" ->
           [Date |-> <<5>>, Start |-> <<9, 0>>, End |-> <<9, 30>>, Break |-> <<-30>>]
      [] line = "2024-01-10,09:00,09:30,30" ->
           [Date |-> <<1, 0>>, Start |-> <<9, 0>>, End |-> <<9, 30>>, Break |-> <<30>>]
      [] line = "2024-01-10,25:00,09:30,x" ->
           [Date |-> <<1, 0>>, Start |-> <<25, 0>>, End |-> <<9, 30>>, Break |-> <<>>]

\* up_df = pd.read_csv(uploaded)
read_csv(file) == [i \in DOMAIN file.lines |-> read_csv_row(file.lines[i])]

\* required.issubset(up_df.columns)
HasRequiredColumns(file) == file.header = RequiredHeader

(* ---------------------------------------------------------------------- *)
(* Messages                                                                *)
(* ---------------------------------------------------------------------- *)

NoMessage == "-"
ImportCompleted == "Bulk import completed!"
ClockedIn == "Clocked in!"
ClockedOut == "Clocked out"
EntryUpdated == "Entry updated!"
EntryAdded == "Added hrs"
EndMustBeAfterStart == "End must be after start."
AllDataCleared == "All data cleared!"
DatabaseReset == "Database reset!"
FormException == "exception while building the form"
MissingColumns == "CSV must contain: Date, Start, End, Break"

(* ---------------------------------------------------------------------- *)
(* Section 5: bulk import                                                  *)
(* ---------------------------------------------------------------------- *)

\* The body of the for loop: the inner try, whose bare except skips the row.
import_row(d, row) ==
    IF IsIsoTime(row.Start) /\ IsIsoTime(row.End) /\ Len(row.Break) = 1
    THEN LET hrs == calculate_hours(fromisoformat(row.Start),
                                    fromisoformat(row.End),
                                    row.Break[1])
         IN  IF hrs > 0
             THEN add_entry(d, [date          |-> row.Date,
                                start_time    |-> row.Start,
                                end_time      |-> row.End,
                                break_minutes |-> row.Break[1],
                                hours         |-> hrs])
             ELSE d
    ELSE d

RowRaises(row) == ~(IsIsoTime(row.Start) /\ IsIsoTime(row.End) /\ Len(row.Break) = 1)

RECURSIVE import_rows_aborting(_, _)
import_rows_aborting(d, rows) ==
    IF rows = <<>> \/ RowRaises(Head(rows)) THEN d
    ELSE import_rows_aborting(import_row(d, Head(rows)), Tail(rows))

\* for _, row in up_df.iterrows(): ...
RECURSIVE import_rows(_, _)
import_rows(d, rows) ==
    IF rows = <<>> THEN d
    ELSE import_rows(import_row(d, Head(rows)), Tail(rows))

\* "if uploaded:" holds and the file has the required columns, so the run
\* imports the rows and ends in st.rerun().
ImportActive(up) == up # None /\ HasRequiredColumns(up[1])

\* What a run that gets past the sidebar shows when no button handler speaks.
SidebarMessage(up) == IF up # None THEN MissingColumns ELSE NoMessage

(* ---------------------------------------------------------------------- *)
(* Section 6: the form's defaults                                          *)
(* ---------------------------------------------------------------------- *)

\* In edit mode the defaults are read from the edited row with .iloc[0],
\* which raises when no row has edit_id; number_input raises when the row's
\* break is below its min_value.  The run then ends before any button below.
FormRaises ==
    /\ edit_mode
    /\ \/ edit_id = None
       \/ \A i \in DOMAIN entries : entries[i].id # edit_id[1]
       \/ \E i \in DOMAIN entries :
             entries[i].id = edit_id[1] /\ entries[i].break_minutes < 0

\* The run reaches the buttons of sections 6, 7 and 12.
Interactive == ~rerun /\ ~ImportActive(uploaded) /\ ~FormRaises

Seconds(t) == t.hour * 3600 + t.minute * 60 + t.second

(* ---------------------------------------------------------------------- *)
(* The state machine: one action per script run                            *)
(* ---------------------------------------------------------------------- *)

Init ==
    /\ entries = <<>>
    /\ seq = 0
    /\ clocked_in = None
    /\ edit_mode = FALSE
    /\ edit_id = None
    /\ uploaded = None
    /\ rerun = FALSE
    /\ msg = NoMessage
    /\ calc_args = None
    /\ calc_result = None

\* The sidebar's "if uploaded:" block for a file with the required columns:
\* the rows are imported, then st.success and st.rerun().
BulkImport(file) ==
    LET d == import_rows(database, read_csv(file))
    IN  /\ d.seq <= MaxId
        /\ entries' = d.rows
        /\ seq' = d.seq
        /\ msg' = ImportCompleted
        /\ rerun' = TRUE

\* The user picks file in the uploader; the run this triggers.
Upload(file) ==
    /\ uploaded' = Some(file)
    /\ IF HasRequiredColumns(file)
       THEN BulkImport(file)
       ELSE /\ msg' = IF FormRaises THEN FormException ELSE MissingColumns
            /\ UNCHANGED <<entries, seq, rerun>>
    /\ UNCHANGED <<clocked_in, edit_mode, edit_id, calc_args, calc_result>>

\* The file_uploader widget, empty, between runs.
file_uploader ==
    /\ ~rerun
    /\ uploaded = None
    /\ \E file \in CsvFiles : Upload(file)

\* The user removes the file from the uploader; the run this triggers finds
\* "uploaded" empty and no button pressed.
RemoveUpload ==
    /\ uploaded # None
    /\ uploaded' = None
    /\ rerun' = FALSE
    /\ msg' = IF FormRaises THEN FormException ELSE NoMessage
    /\ UNCHANGED <<entries, seq, clocked_in, edit_mode, edit_id,
                   calc_args, calc_result>>

\* The run st.rerun() asked for, with the uploader still holding a file that
\* has the required columns.
RerunImport ==
    /\ rerun
    /\ ImportActive(uploaded)
    /\ BulkImport(uploaded[1])
    /\ UNCHANGED <<clocked_in, edit_mode, edit_id, uploaded,
                   calc_args, calc_result>>

\* The run st.rerun() asked for, otherwise: the page is drawn afresh.
RerunRender ==
    /\ rerun
    /\ ~ImportActive(uploaded)
    /\ rerun' = FALSE
    /\ msg' = IF FormRaises THEN FormException ELSE SidebarMessage(uploaded)
    /\ UNCHANGED <<entries, seq, clocked_in, edit_mode, edit_id, uploaded,
                   calc_args, calc_result>>

\* "Clock-In Now" / "Clock-Out", pressed at instant now.
ClockButton(now) ==
    /\ ~rerun
    /\ ~ImportActive(uploaded)
    /\ IF clocked_in = None
       THEN /\ clocked_in' = Some(now)
            /\ msg' = ClockedIn
            /\ UNCHANGED <<entries, seq>>
       ELSE LET end == now
                secs == Seconds(end) - Seconds(clocked_in[1])
                d == add_entry(database,
                       [date          |-> strftime_Ymd(Today),
                        start_time    |-> <<clocked_in[1].hour, clocked_in[1].minute>>,
                        end_time      |-> <<end.hour, end.minute>>,
                        break_minutes |-> 0,
                        hours         |-> round2(secs, 3600)])
            IN  /\ secs >= 0
                /\ seq < MaxId
                /\ entries' = d.rows
                /\ seq' = d.seq
                /\ clocked_in' = None
                /\ msg' = ClockedOut
    /\ rerun' = TRUE
    /\ UNCHANGED <<edit_mode, edit_id, uploaded, calc_args, calc_result>>

\* The Update button pressed without the validation of its inputs.
UpdateButton_unchecked(entry_date, start_time, end_time, break_min) ==
    LET hrs == calculate_hours(start_time, end_time, break_min)
        d == update_entry(database, edit_id[1],
               [date          |-> strftime_Ymd(entry_date),
                start_time    |-> strftime_HM(start_time),
                end_time      |-> strftime_HM(end_time),
                break_minutes |-> break_min,
                hours         |-> hrs])
    IN  /\ Interactive
        /\ edit_mode
        /\ entries' = d.rows
        /\ IF hrs > 0
           THEN /\ edit_mode' = FALSE
                /\ msg' = EntryUpdated
                /\ rerun' = TRUE
           ELSE /\ msg' = EndMustBeAfterStart
                /\ UNCHANGED <<edit_mode, rerun>>
        /\ UNCHANGED <<seq, clocked_in, edit_id, uploaded, calc_args, calc_result>>

\* The Update button, shown in edit mode.
UpdateButton(entry_date, start_time, end_time, break_min) ==
    LET hrs == calculate_hours(start_time, end_time, break_min)
        d == update_entry(database, edit_id[1],
               [date          |-> strftime_Ymd(entry_date),
                start_time    |-> strftime_HM(start_time),
                end_time      |-> strftime_HM(end_time),
                break_minutes |-> break_min,
                hours         |-> hrs])
    IN  /\ Interactive
        /\ edit_mode
        /\ IF hrs > 0
           THEN /\ entries' = d.rows
                /\ edit_mode' = FALSE
                /\ msg' = EntryUpdated
                /\ rerun' = TRUE
           ELSE /\ msg' = EndMustBeAfterStart
                /\ UNCHANGED <<entries, edit_mode, rerun>>
        /\ UNCHANGED <<seq, clocked_in, edit_id, uploaded, calc_args, calc_result>>

\* The Add button, shown outside edit mode.
AddButton(entry_date, start_time, end_time, break_min) ==
    LET hrs == calculate_hours(start_time, end_time, break_min)
        d == add_entry(database,
               [date          |-> strftime_Ymd(entry_date),
                start_time    |-> strftime_HM(start_time),
                end_time      |-> strftime_HM(end_time),
                break_minutes |-> break_min,
                hours         |-> hrs])
    IN  /\ Interactive
        /\ ~edit_mode
        /\ IF hrs > 0
           THEN /\ seq < MaxId
                /\ entries' = d.rows
                /\ seq' = d.seq
                /\ msg' = EntryAdded
                /\ rerun' = TRUE
           ELSE /\ msg' = EndMustBeAfterStart
                /\ UNCHANGED <<entries, seq, rerun>>
        /\ UNCHANGED <<clocked_in, edit_mode, edit_id, uploaded,
                       calc_args, calc_result>>

\* The Cancel button, shown in edit mode.
CancelButton ==
    /\ Interactive
    /\ edit_mode
    /\ edit_mode' = FALSE
    /\ rerun' = TRUE
    /\ msg' = NoMessage
    /\ UNCHANGED <<entries, seq, clocked_in, edit_id, uploaded,
                   calc_args, calc_result>>

\* recent = df_entries.head(7)
RecentLimit == 7

recent == SubSeq(df_entries, 1, IF Len(df_entries) < RecentLimit
                                THEN Len(df_entries) ELSE RecentLimit)

\* The pencil button of the i-th listed row.
EditButton(i) ==
    /\ Interactive
    /\ i \in DOMAIN recent
    /\ edit_mode' = TRUE
    /\ edit_id' = Some(recent[i].id)
    /\ rerun' = TRUE
    /\ msg' = NoMessage
    /\ UNCHANGED <<entries, seq, clocked_in, uploaded, calc_args, calc_result>>

\* The bin button of the i-th listed row.
DeleteButton(i) ==
    /\ Interactive
    /\ i \in DOMAIN recent
    /\ entries' = delete_entry(database, recent[i].id).rows
    /\ rerun' = TRUE
    /\ msg' = NoMessage
    /\ UNCHANGED <<seq, clocked_in, edit_mode, edit_id, uploaded,
                   calc_args, calc_result>>

\* "Delete All Data", in the danger zone that is drawn when entries exist.
DeleteAllData ==
    /\ Interactive
    /\ entries # <<>>
    /\ entries' = delete_all(database).rows
    /\ seq' = delete_all(database).seq
    /\ rerun' = TRUE
    /\ msg' = AllDataCleared
    /\ UNCHANGED <<clocked_in, edit_mode, edit_id, uploaded, calc_args, calc_result>>

\* "Reset DB (keep schema)", beside it.
ResetDB ==
    /\ Interactive
    /\ entries # <<>>
    /\ entries' = delete_all(database).rows
    /\ seq' = delete_all(database).seq
    /\ rerun' = TRUE
    /\ msg' = DatabaseReset
    /\ UNCHANGED <<clocked_in, edit_mode, edit_id, uploaded, calc_args, calc_result>>

Next ==
    \/ file_uploader
    \/ RemoveUpload
    \/ RerunImport
    \/ RerunRender
    \/ \E now \in ClockInstants : ClockButton(now)
    \/ \E f \in FormInputs :
          UpdateButton(f.entry_date, f.start_time, f.end_time, f.break_min)
    \/ \E f \in FormInputs :
          AddButton(f.entry_date, f.start_time, f.end_time, f.break_min)
    \/ CancelButton
    \/ \E i \in 1..RecentLimit : EditButton(i)
    \/ \E i \in 1..RecentLimit : DeleteButton(i)
    \/ DeleteAllData
    \/ ResetDB

Spec == Init /\ [][Next]_vars

(* ---------------------------------------------------------------------- *)
(* calculate_hours called on its own                                       *)
(* ---------------------------------------------------------------------- *)

CalcTimes == {Time(h, m) : h \in {8, 9, 17}, m \in {0, 1, 2, 29, 30, 31, 58, 59}}

CalcBreaks == {-30, 0, 1, 30, 60}

InitCalc ==
    /\ entries = <<>>
    /\ seq = 0
    /\ clocked_in = None
    /\ edit_mode = FALSE
    /\ edit_id = None
    /\ uploaded = None
    /\ rerun = FALSE
    /\ msg = NoMessage
    /\ calc_args \in {Some([start |-> s, end |-> e, break_min |-> b]) :
                        s \in CalcTimes, e \in CalcTimes, b \in CalcBreaks}
    /\ calc_result = None

CalcCall ==
    /\ calc_args # None
    /\ calc_result = None
    /\ calc_result' = Some(calculate_hours(calc_args[1].start, calc_args[1].end,
                                           calc_args[1].break_min))
    /\ UNCHANGED <<entries, seq, clocked_in, edit_mode, edit_id, uploaded,
                   rerun, msg, calc_args>>

NextCalc == CalcCall

SpecCalc == InitCalc /\ [][NextCalc]_vars

(* ---------------------------------------------------------------------- *)
(* Properties                                                              *)
(* ---------------------------------------------------------------------- *)

\* end_minutes - start_minutes - break
Elapsed(start, end, break_min) ==
    (end.hour * 60 + end.minute) - (start.hour * 60 + start.minute) - break_min

\* C1: every entry in the store has hours > 0.
AllHoursPositive ==
    \A i \in DOMAIN entries : entries[i].hours > 0

\* C2: when end - start - break > 0 (in minutes), calculate_hours returns
\* that many minutes as hours rounded to two decimals, i.e. a value within
\* 0.005 of elapsed/60, and the value is positive; otherwise it returns 0.
\* 09:00-17:00 with a 30 minute break gives 7.5.
CalculateHoursCorrect ==
    calc_result # None =>
        LET a == calc_args[1]
            elapsed == Elapsed(a.start, a.end, a.break_min)
            h == calc_result[1]
        IN  /\ elapsed > 0 => h > 0 /\ 6 * h - 10 * elapsed \in -3..3
            /\ elapsed <= 0 => h = 0
            /\ (a.start = Time(9, 0) /\ a.end = Time(17, 0) /\ a.break_min = 30)
                  => h = 750

\* C2 witness: the call for 09:00-17:00 with a 30 minute break has returned.
CalculateHoursWitness ==
    /\ calc_args = Some([start |-> Time(9, 0), end |-> Time(17, 0), break_min |-> 30])
    /\ calc_result = Some(750)

\* C3: pressing Add with inputs whose elapsed minutes are <= 0 leaves the
\* table and the id counter as they were and shows the error message.
RejectedAddLeavesStore ==
    [][\A f \in FormInputs :
          (/\ Elapsed(f.start_time, f.end_time, f.break_min) <= 0
           /\ AddButton(f.entry_date, f.start_time, f.end_time, f.break_min))
          => /\ entries' = entries
             /\ seq' = seq
             /\ msg' = EndMustBeAfterStart]_vars

\* C3 witness: an Add has just been rejected while the store holds entries.
RejectedAddWitness ==
    /\ msg = EndMustBeAfterStart
    /\ ~edit_mode
    /\ entries # <<>>

\* C4: pressing Update with inputs whose elapsed minutes are <= 0 shows the
\* error message and leaves every row of the table, the edited one
\* included, as it was.
RejectedUpdateLeavesStore ==
    [][\A f \in FormInputs :
          (/\ Elapsed(f.start_time, f.end_time, f.break_min) <= 0
           /\ UpdateButton(f.entry_date, f.start_time, f.end_time, f.break_min))
          => /\ entries' = entries
             /\ seq' = seq
             /\ msg' = EndMustBeAfterStart]_vars

\* C4 witness: an Update of a row that is in the table has just been rejected.
RejectedUpdateWitness ==
    /\ msg = EndMustBeAfterStart
    /\ edit_mode
    /\ edit_id # None
    /\ \E i \in DOMAIN entries : entries[i].id = edit_id[1]

\* C5: ids are unique in the table; an id given to a new row is larger than
\* the counter, which never decreases and is never below an id in the
\* table, so the id differs from every id given before; Update keeps the
\* ids of all rows.
IdsUniqueNeverReused ==
    [][/\ \A i, j \in DOMAIN entries' :
             i # j => entries'[i].id # entries'[j].id
       /\ \A i \in DOMAIN entries' :
             /\ entries'[i].id \in Ids(entries) \/ entries'[i].id > seq
             /\ entries'[i].id <= seq'
       /\ seq' >= seq
       /\ \A f \in FormInputs :
             UpdateButton(f.entry_date, f.start_time, f.end_time, f.break_min)
                => [i \in DOMAIN entries' |-> entries'[i].id]
                     = [i \in DOMAIN entries |-> entries[i].id]]_vars

\* C5 witness: the table holds a row whose id exceeds the number of rows, so
\* an earlier id has gone and has not been given again.
IdsWitness ==
    /\ Len(entries) = 1
    /\ entries[1].id = 2
    /\ seq = 2

\* C6: the listed entries are in date-descending order, entries of the same
\* date newest id first.
ListedDateDescending ==
    \A i, j \in DOMAIN df_entries :
        i < j =>
            \/ strptime_Ymd(df_entries[i].date) > strptime_Ymd(df_entries[j].date)
            \/ /\ strptime_Ymd(df_entries[i].date) = strptime_Ymd(df_entries[j].date)
               /\ df_entries[i].id > df_entries[j].id

\* C7: the stored hours of every entry is calculate_hours of the entry's own
\* start_time, end_time and break_minutes.
HoursFromCalculator ==
    \A i \in DOMAIN entries :
        entries[i].hours = calculate_hours(fromisoformat(entries[i].start_time),
                                           fromisoformat(entries[i].end_time),
                                           entries[i].break_minutes)

\* C8: break_minutes of every stored entry is non-negative.
BreaksNonNegative ==
    \A i \in DOMAIN entries : entries[i].break_minutes >= 0

\* A CSV row that passes validation: its times and break parse and its
\* elapsed minutes are positive.
RowIsValid(row) ==
    /\ IsIsoTime(row.Start)
    /\ IsIsoTime(row.End)
    /\ Len(row.Break) = 1
    /\ Elapsed(fromisoformat(row.Start), fromisoformat(row.End), row.Break[1]) > 0

ImportNotRepeated ==
    [][(rerun /\ msg = ImportCompleted) => entries' = entries]_vars

\* C11: whenever edit_mode is true, edit_id is the id of an entry in the
\* table, so the next run can read the defaults of the form from that entry.
EditIdInStore ==
    edit_mode =>
        /\ edit_id # None
        /\ \E i \in DOMAIN entries : entries[i].id = edit_id[1]

====
